---- MODULE Spec2Model ----
(***************************************************************************)
(* Real-time audio stream segmentation and speaker-turn consolidation:     *)
(* AudioChunker.process_audio_stream (backend/audio_processor.py) and the  *)
(* websocket handler stream_audio (backend/main.py).                       *)
(*                                                                         *)
(* Units.  A sample is represented by its amplitude in units of the        *)
(* silence threshold's resolution.  Times are integers counted in sample   *)
(* periods (1/sample_rate seconds), so the code's  n / sample_rate  is  n  *)
(* here, and the tolerance of the merge rule is a number of sample periods.*)
(* An optional value (Python None or a dict) is a sequence of length 0     *)
(* or 1.                                                                   *)
(***************************************************************************)
EXTENDS Integers, Sequences, FiniteSets, TLC

\* ---------------------------------------------------------------- bounds
\* samples per analysis window: int(sample_rate * chunk_duration), scaled down
ChunkSize == 2
\* total number of samples a session receives
MaxSamples == 6
\* segments the recognizer returns over a session
MaxSegments == 3
\* irregular events a session meets: a failure of the recognizer, the
\* database or the client push, or a segment transcribed to a blank text
MaxFaults == 1

\* ------------------------------------------------------- program constants
\* time_tolerance = 0.1 seconds, in sample periods (scaled like ChunkSize)
time_tolerance == 1
\* silence_threshold = 0.01, in amplitude units
silence_threshold == 1

Amplitudes == {-1, 0}
Speakers == {"A", "B"}
Texts == {<<>>, <<"hi">>}
MaxPacketLen == 2 * ChunkSize

None == <<>>
Some(x) == <<x>>

VARIABLES
    pc,                     \* position of the handler stream_audio
    buffer,                 \* chunker.buffer
    chunk_start_time,       \* start_time of the window the chunker yielded
    chunk_end_time,         \* end_time of the window the chunker yielded
    meeting_audio_time,     \* the session clock
    raised,                 \* the recognizer raised for this window
    segs_left,              \* segments the recognizer may still return
    seg_floor,              \* end of the previous segment of this window
    segment,                \* the merge loop's variable
    current_merged_segment, \* the merge loop's accumulator
    last_processed_segment, \* the pending turn
    finalized_segments,     \* turns finalized by this window, not yet emitted
    speaker_identifier,     \* "none", "ready" or "cleaned"
    chunker_live,           \* FALSE once chunker.cleanup() ran
    malformed,              \* whether the packet last received was dropped as malformed
    faults,                 \* irregular events met so far
    fed,                    \* history: samples appended to the buffer
    consumed,               \* history: samples taken out of the buffer as windows
    windowLog,              \* history: one record per consumed window
    finalLog,               \* history: turns in the order they were finalized
    dbTry,                  \* history: turns whose persistence write was attempted
    dbLog,                  \* history: rows committed to the database
    wsTry,                  \* history: turns whose client push was attempted
    wsLog,                  \* history: turns the client received
    closeCause,             \* history: how the session left the receive loop
    auth,                   \* history: the authentication data the handler checked
    recogLog,               \* history: one record per call of the recognizer
    fedLog,                 \* history: the samples appended to the buffer, in order
    consumedLog,            \* history: the windows taken out of the buffer, in order
    tracing,                \* whether fedLog and consumedLog are recorded in this run
    sessions,               \* two connections side by side: each handler's locals
    heap                    \* two connections side by side: the instances created

chunkerVars == <<buffer, chunk_start_time, chunk_end_time, fed, consumed, windowLog>>
mergeVars == <<raised, segs_left, seg_floor, segment, current_merged_segment, last_processed_segment,
               finalized_segments, finalLog>>
emitVars == <<dbTry, dbLog, wsTry, wsLog>>
lifeVars == <<speaker_identifier, chunker_live, malformed, faults, closeCause>>
pairVars == <<sessions, heap>>
histVars == <<auth, recogLog, fedLog, consumedLog, tracing, pairVars>>
vars == <<pc, meeting_audio_time, chunkerVars, mergeVars, emitVars, lifeVars, histVars>>

\* ------------------------------------------------------------- helpers
Abs(x) == IF x < 0 THEN -x ELSE x

RECURSIVE MaxAbs(_)
MaxAbs(s) == IF s = <<>> THEN 0
             ELSE LET m == MaxAbs(Tail(s)) IN
                  IF Abs(Head(s)) > m THEN Abs(Head(s)) ELSE m

Last(s) == s[Len(s)]

is_silence_Inclusive(audio_chunk) == MaxAbs(audio_chunk) <= silence_threshold

\* AudioChunker.is_silence
is_silence(audio_chunk) == MaxAbs(audio_chunk) < silence_threshold

\* the row models.Transcription(speaker=..., text=...) written for a turn
Row(seg) == [speaker |-> seg.speaker, text |-> seg.text]

Packets == UNION {[1..n -> Amplitudes] : n \in 1..MaxPacketLen}

\* segments process_single_chunk can return for a window that ends at abs_end,
\* after a previous segment of the same window that ended at floor (or, for the
\* first one, for a window that starts at floor): whisper's segments are in
\* time order, inside the chunk, and offset by chunk_absolute_start_time
RawSegments(speakers, floor, abs_end) ==
    UNION {{[speaker |-> sp, start_time |-> st, end_time |-> en, text |-> tx] :
               sp \in speakers, tx \in Texts, en \in (st + 1)..abs_end} :
           st \in floor..abs_end}

\* the connections of the side-by-side view, each served by its own call of
\* stream_audio
Sessions == {1, 2}

\* a connection whose handler has not started
NotConnected ==
    [pc |-> "connecting", chunker |-> 0, recognizer |-> 0,
     last_processed_segment |-> None, meeting_audio_time |-> 0,
     out |-> <<>>, fedLog |-> <<>>, winLog |-> <<>>, retLog |-> <<>>]

\* the state after construction, with the handler at the point at; traced
\* says whether the sample histories are recorded
Start(at, traced) ==
    /\ pc = at
    /\ buffer = <<>>
    /\ chunk_start_time = 0
    /\ chunk_end_time = 0
    /\ meeting_audio_time = 0
    /\ raised = FALSE
    /\ segs_left = MaxSegments
    /\ seg_floor = 0
    /\ segment = None
    /\ current_merged_segment = None
    /\ last_processed_segment = None
    /\ finalized_segments = <<>>
    /\ speaker_identifier = "none"
    /\ chunker_live = TRUE
    /\ malformed = FALSE
    /\ faults = 0
    /\ fed = 0
    /\ consumed = 0
    /\ windowLog = <<>>
    /\ finalLog = <<>>
    /\ dbTry = <<>>
    /\ dbLog = <<>>
    /\ wsTry = <<>>
    /\ wsLog = <<>>
    /\ closeCause = "open"
    /\ auth = None
    /\ recogLog = <<>>
    /\ fedLog = <<>>
    /\ consumedLog = <<>>
    /\ tracing = traced
    /\ sessions = [s \in Sessions |-> NotConnected]
    /\ heap = [chunkers |-> [c \in Sessions |-> <<>>],
               recognizers |-> [r \in Sessions |-> 1]]

Init == Start("connecting", FALSE)

\* a new AudioChunker about to be fed, its sample histories recorded
ChunkerInit == Start("receive", TRUE)

\* ------------------------------------------------- connection set-up
AuthOutcomes == {"ok", "no_auth", "bad_token", "no_email", "no_user", "not_approved",
                 "init_failed", "disconnect", "error"}

\* what the handler finds in the authentication message: type is "auth" and a
\* token is present, the token decodes, it carries an email, the user exists,
\* the user may create meetings
AuthData == [type_ok : BOOLEAN, jwt_ok : BOOLEAN, email : BOOLEAN, user : BOOLEAN,
             can_create : BOOLEAN]

Authenticate_NoApproval(a) ==
    IF ~a.type_ok THEN "no_auth"
    ELSE IF ~a.jwt_ok THEN "bad_token"
    ELSE IF ~a.email THEN "no_email"
    ELSE IF ~a.user THEN "no_user"
    ELSE "ok"

\* the checks between receive_text and the creation of the recognizer
Authenticate(a) ==
    IF ~a.type_ok THEN "no_auth"
    ELSE IF ~a.jwt_ok THEN "bad_token"
    ELSE IF ~a.email THEN "no_email"
    ELSE IF ~a.user THEN "no_user"
    ELSE IF ~a.can_create THEN "not_approved"
    ELSE "ok"

\* accept, authentication message, token and user checks, recognizer creation;
\* receive_text or json.loads may raise before any check (msg = None)
Accept ==
    /\ pc = "connecting"
    /\ \E msg \in {None} \cup {Some(a) : a \in AuthData},
          transport \in {"disconnect", "error"}, init_ok \in BOOLEAN :
       LET outcome == IF msg = None THEN transport
                      ELSE IF Authenticate(msg[1]) # "ok" THEN Authenticate(msg[1])
                      ELSE IF init_ok THEN "ok" ELSE "init_failed"
       IN
        /\ auth' = msg
        /\ pc' = CASE outcome = "ok" -> "receive"
                   [] outcome = "disconnect" -> "flush"
                   [] outcome = "error" -> "fatal"
                   [] OTHER -> "finally"
        /\ speaker_identifier' = IF outcome = "ok" THEN "ready" ELSE "none"
        /\ closeCause' = CASE outcome = "ok" -> "open"
                           [] outcome = "disconnect" -> "disconnect"
                           [] outcome = "error" -> "error"
                           [] OTHER -> "rejected"
    /\ UNCHANGED <<meeting_audio_time, chunkerVars, mergeVars, emitVars,
                   chunker_live, malformed, faults, recogLog, fedLog, consumedLog,
                   tracing, pairVars>>

\* ------------------------------------------------------ receive loop
AppendPacket_Prepend(buf, chunk) == chunk \o buf

\* self.buffer = np.append(self.buffer, chunk)
AppendPacket(buf, chunk) == buf \o chunk

\* data = await websocket.receive_bytes(), a well-formed packet:
\* the generator appends it to the chunker buffer
ReceivePacket ==
    /\ pc = "receive"
    /\ \E audio_chunk \in Packets :
        /\ fed + Len(audio_chunk) <= MaxSamples
        /\ buffer' = AppendPacket(buffer, audio_chunk)
        /\ fed' = fed + Len(audio_chunk)
        /\ fedLog' = IF tracing THEN fedLog \o audio_chunk ELSE fedLog
    /\ pc' = "chunk"
    /\ malformed' = FALSE
    /\ UNCHANGED <<meeting_audio_time, chunk_start_time, chunk_end_time, consumed,
                   windowLog, mergeVars, emitVars, speaker_identifier, chunker_live,
                   faults, closeCause>>
    /\ UNCHANGED <<auth, recogLog, consumedLog, tracing, pairVars>>

AfterMalformed_Close == "fatal"

\* continue: the handler goes back to receive_bytes
AfterMalformed == "receive"

\* len(data) % 4 != 0: the packet is skipped
ReceiveMalformed ==
    /\ pc = "receive"
    /\ malformed' = TRUE
    /\ pc' = AfterMalformed
    /\ UNCHANGED <<meeting_audio_time, chunkerVars, mergeVars, emitVars,
                   speaker_identifier, chunker_live, faults, closeCause>>
    /\ UNCHANGED histVars

\* receive_bytes raises WebSocketDisconnect
ReceiveDisconnect ==
    /\ pc = "receive"
    /\ pc' = "flush"
    /\ closeCause' = "disconnect"
    /\ malformed' = FALSE
    /\ UNCHANGED <<meeting_audio_time, chunkerVars, mergeVars, emitVars,
                   speaker_identifier, chunker_live, faults>>
    /\ UNCHANGED histVars

\* receive_bytes raises any other exception
ReceiveError ==
    /\ pc = "receive"
    /\ pc' = "fatal"
    /\ closeCause' = "error"
    /\ malformed' = FALSE
    /\ UNCHANGED <<meeting_audio_time, chunkerVars, mergeVars, emitVars,
                   speaker_identifier, chunker_live, faults>>
    /\ UNCHANGED histVars

\* ------------------------------------------------------------ chunker
TakeWindow_Short(buf) == SubSeq(buf, 1, ChunkSize - 1)

\* current_chunk = self.buffer[:chunk_size]
TakeWindow(buf) == SubSeq(buf, 1, ChunkSize)

TrimBuffer_OffByOne(buf) == SubSeq(buf, ChunkSize + 2, Len(buf))

\* self.buffer = self.buffer[chunk_size:]
TrimBuffer(buf) == SubSeq(buf, ChunkSize + 1, Len(buf))

\* start_time = buffer_size_after_trim / self.sample_rate
StartTime(buf_after_trim) == Len(buf_after_trim)

\* end_time = start_time + len(current_chunk) / self.sample_rate
EndTime(start_time, current_chunk) == start_time + Len(current_chunk)

AfterWindow_YieldAll(silent) == "recognize"

\* if self.is_silence(current_chunk): continue; otherwise the window is yielded
\* to the handler
AfterWindow(silent) == IF silent THEN "chunk" ELSE "recognize"

HasFullWindow_Strict(buf) == Len(buf) > ChunkSize

\* the loop condition  len(self.buffer) >= self.sample_rate * self.chunk_duration
HasFullWindow(buf) == Len(buf) >= ChunkSize

\* one iteration of  while len(self.buffer) >= self.sample_rate * self.chunk_duration
ChunkerStep ==
    /\ pc = "chunk"
    /\ HasFullWindow(buffer)
    /\ LET current_chunk == TakeWindow(buffer)
           rest == TrimBuffer(buffer)
           start_time == StartTime(rest)
           end_time == EndTime(start_time, current_chunk)
           silent == is_silence(current_chunk)
       IN  /\ buffer' = rest
           /\ consumed' = consumed + Len(current_chunk)
           /\ windowLog' = Append(windowLog, silent)
           /\ consumedLog' = IF tracing THEN Append(consumedLog, current_chunk)
                             ELSE consumedLog
           /\ pc' = AfterWindow(silent)
           /\ IF pc' = "chunk"
              THEN UNCHANGED <<chunk_start_time, chunk_end_time>>
              ELSE /\ chunk_start_time' = start_time
                   /\ chunk_end_time' = end_time
    /\ UNCHANGED <<meeting_audio_time, fed, mergeVars, emitVars, lifeVars>>
    /\ UNCHANGED <<auth, recogLog, fedLog, tracing, pairVars>>

\* the while loop ends, the generator is exhausted, the handler receives again
ChunkerDone ==
    /\ pc = "chunk"
    /\ ~HasFullWindow(buffer)
    /\ pc' = "receive"
    /\ UNCHANGED <<meeting_audio_time, chunkerVars, mergeVars, emitVars, lifeVars>>
    /\ UNCHANGED histVars

\* ------------------------------------------------ recognizer and merge
\* abs_chunk_end_time = abs_chunk_start_time + (chunk_end_time - chunk_start_time)
AbsEnd == meeting_audio_time + (chunk_end_time - chunk_start_time)

WindowAccumulator_Reset(last) == None

\* current_merged_segment = last_processed_segment
WindowAccumulator(last) == last

AfterRecognize_Abort(r) == IF r THEN "receive" ELSE "merge"

\* where the handler goes after the recognizer call returned (r false) or
\* raised (r true): both except clauses set newly_processed_segments = []
\* and fall through to the merge loop
AfterRecognize(r) == "merge"

\* speaker_identifier.process_audio_chunk(processed_chunk, abs_chunk_start_time):
\* it returns a list of segments, or raises and the list is empty
Recognize ==
    /\ pc = "recognize"
    /\ \E r \in {x \in BOOLEAN : x => faults < MaxFaults} :
        /\ raised' = r
        /\ faults' = IF r THEN faults + 1 ELSE faults
        /\ recogLog' = Append(recogLog, [window |-> Len(windowLog),
                                         start |-> meeting_audio_time,
                                         raised |-> r, segs |-> <<>>])
    /\ seg_floor' = meeting_audio_time
    /\ finalized_segments' = <<>>
    /\ segment' = None
    /\ current_merged_segment' = WindowAccumulator(last_processed_segment)
    /\ pc' = AfterRecognize(raised')
    /\ UNCHANGED <<meeting_audio_time, chunkerVars, segs_left, last_processed_segment,
                   finalLog, emitVars, speaker_identifier, chunker_live, malformed,
                   closeCause, auth, fedLog, consumedLog, tracing, pairVars>>

MergeTest_Strict(cur, seg) ==
    /\ seg.speaker = cur.speaker
    /\ seg.start_time - cur.end_time < time_tolerance

MergeTest_SpeakerOnly(cur, seg) == seg.speaker = cur.speaker

MergeTest_TimeOnly(cur, seg) == seg.start_time - cur.end_time <= time_tolerance

\* the test of the elif at the merge loop
MergeTest(cur, seg) ==
    /\ seg.speaker = cur.speaker
    /\ seg.start_time - cur.end_time <= time_tolerance

MergeInto_NoSpace(cur, seg) ==
    [cur EXCEPT !.text = cur.text \o seg.text, !.end_time = seg.end_time]

MergeInto_SkipEmpty(cur, seg) ==
    IF seg.text = <<>> THEN [cur EXCEPT !.end_time = seg.end_time]
    ELSE [cur EXCEPT !.text = cur.text \o <<" ">> \o seg.text,
                     !.end_time = seg.end_time]

MergeInto_KeepEnd(cur, seg) == [cur EXCEPT !.text = cur.text \o <<" ">> \o seg.text]

\* current_merged_segment["text"] += " " + segment["text"];
\* current_merged_segment["end_time"] = segment["end_time"]
MergeInto(cur, seg) ==
    [cur EXCEPT !.text = cur.text \o <<" ">> \o seg.text,
                !.end_time = seg.end_time]

SeedTurn_NoText(seg) == [seg EXCEPT !.text = <<>>]

\* current_merged_segment = segment
SeedTurn(seg) == seg

\* speaker labels are opaque and compared for equality only: the first
\* segment of a session is labelled "A" without loss of generality
SpeakersNow == IF \A i \in DOMAIN recogLog : recogLog[i].segs = <<>>
               THEN {"A"} ELSE Speakers

\* one iteration of  for segment in newly_processed_segments; a segment
\* whose text strips to nothing is drawn while the session has irregular
\* events to spare
MergeStep ==
    /\ pc = "merge"
    /\ ~raised
    /\ segs_left > 0
    /\ \E s \in {x \in RawSegments(SpeakersNow, seg_floor, AbsEnd) :
                    x.text = <<>> => faults < MaxFaults} :
        /\ faults' = IF s.text = <<>> THEN faults + 1 ELSE faults
        /\ segment' = Some(s)
        /\ seg_floor' = s.end_time
        /\ recogLog' = [recogLog EXCEPT ![Len(recogLog)].segs = Append(@, s)]
        /\ IF current_merged_segment = None
           THEN /\ current_merged_segment' = Some(SeedTurn(s))
                /\ UNCHANGED <<finalized_segments, finalLog>>
           ELSE IF MergeTest(current_merged_segment[1], s)
           THEN /\ current_merged_segment' =
                      Some(MergeInto(current_merged_segment[1], s))
                /\ UNCHANGED <<finalized_segments, finalLog>>
           ELSE /\ finalized_segments' =
                      Append(finalized_segments, current_merged_segment[1])
                /\ finalLog' = Append(finalLog, current_merged_segment[1])
                /\ current_merged_segment' = Some(SeedTurn(s))
    /\ segs_left' = segs_left - 1
    /\ UNCHANGED <<pc, meeting_audio_time, chunkerVars, raised, last_processed_segment,
                   emitVars, speaker_identifier, chunker_live, malformed, closeCause, auth, fedLog, consumedLog, tracing, pairVars>>

AfterMerge_PushFirst(fin) == IF fin = <<>> THEN "advance" ELSE "send"

\* if finalized_segments: the emission loop runs, db write first
AfterMerge(fin) == IF fin = <<>> THEN "advance" ELSE "persist"

\* the list is exhausted: last_processed_segment = current_merged_segment
MergeDone ==
    /\ pc = "merge"
    /\ last_processed_segment' = current_merged_segment
    /\ raised' = FALSE
    /\ seg_floor' = 0
    /\ pc' = AfterMerge(finalized_segments)
    /\ UNCHANGED <<meeting_audio_time, chunkerVars, segs_left, segment,
                   current_merged_segment, finalized_segments, finalLog, emitVars,
                   lifeVars>>
    /\ UNCHANGED histVars

\* ------------------------------------------------------------ emission
NextToEmit_Last(fin) == fin[Len(fin)]

\* for final_segment in finalized_segments
NextToEmit(fin) == Head(fin)

AfterPersist_Abort(committed) == IF committed THEN "send" ELSE "receive"

\* the write is inside its own try/except (rollback, log): either way the
\* handler goes on to send_json for the same final_segment
AfterPersist(committed) == "send"

\* db.add(transcription); db.commit(), or the write raises and is rolled back
Persist ==
    /\ pc = "persist"
    /\ LET final_segment == NextToEmit(finalized_segments) IN
        /\ dbTry' = Append(dbTry, final_segment)
        /\ \E committed \in {c \in BOOLEAN : ~c => faults < MaxFaults} :
            /\ dbLog' = IF committed THEN Append(dbLog, Row(final_segment)) ELSE dbLog
            /\ faults' = IF committed THEN faults ELSE faults + 1
            /\ pc' = AfterPersist(committed)
    /\ UNCHANGED <<meeting_audio_time, chunkerVars, mergeVars, wsTry, wsLog,
                   speaker_identifier, chunker_live, malformed, closeCause>>
    /\ UNCHANGED histVars

\* await websocket.send_json(...) returns
SendOk ==
    /\ pc = "send"
    /\ LET final_segment == NextToEmit(finalized_segments) IN
        /\ wsTry' = Append(wsTry, final_segment)
        /\ wsLog' = Append(wsLog, final_segment)
    /\ finalized_segments' = Tail(finalized_segments)
    /\ pc' = IF Tail(finalized_segments) = <<>> THEN "advance" ELSE "persist"
    /\ UNCHANGED <<meeting_audio_time, chunkerVars, raised, segs_left, seg_floor, segment,
                   current_merged_segment, last_processed_segment, finalLog,
                   dbTry, dbLog, lifeVars>>
    /\ UNCHANGED histVars

\* await websocket.send_json(...) raises: the packet-level  except Exception
\* ends the handling of this packet, the generator is abandoned (the loop
\* variables of the abandoned iteration are dead and are reset)
SendRaises ==
    /\ pc = "send"
    /\ faults < MaxFaults
    /\ faults' = faults + 1
    /\ wsTry' = Append(wsTry, NextToEmit(finalized_segments))
    /\ finalized_segments' = <<>>
    /\ chunk_start_time' = 0
    /\ chunk_end_time' = 0
    /\ pc' = "receive"
    /\ UNCHANGED <<meeting_audio_time, buffer, fed, consumed, windowLog, raised,
                   segs_left, seg_floor, segment, current_merged_segment,
                   last_processed_segment, finalLog, dbTry, dbLog, wsLog,
                   speaker_identifier, chunker_live, malformed, closeCause>>
    /\ UNCHANGED histVars

\* meeting_audio_time += (chunk_end_time - chunk_start_time); the generator resumes
Advance ==
    /\ pc = "advance"
    /\ meeting_audio_time' = meeting_audio_time + (chunk_end_time - chunk_start_time)
    /\ chunk_start_time' = 0
    /\ chunk_end_time' = 0
    /\ pc' = "chunk"
    /\ UNCHANGED <<buffer, fed, consumed, windowLog, mergeVars, emitVars, lifeVars>>
    /\ UNCHANGED histVars

\* ------------------------------------------------------- end of session
FlushPersist_Skipped ==
    /\ pc = "flush"
    /\ last_processed_segment # None
    /\ pc' = "remaining"
    /\ UNCHANGED <<meeting_audio_time, chunkerVars, mergeVars, emitVars, lifeVars>>
    /\ UNCHANGED histVars

\* except WebSocketDisconnect: the pending turn is written to the database
FlushPersist ==
    /\ pc = "flush"
    /\ last_processed_segment # None
    /\ LET turn == last_processed_segment[1] IN
        /\ finalLog' = Append(finalLog, turn)
        /\ dbTry' = Append(dbTry, turn)
        /\ \E committed \in {c \in BOOLEAN : ~c => faults < MaxFaults} :
            /\ dbLog' = IF committed THEN Append(dbLog, Row(turn)) ELSE dbLog
            /\ faults' = IF committed THEN faults ELSE faults + 1
    /\ pc' = "flush_send"
    /\ UNCHANGED <<meeting_audio_time, chunkerVars, raised, segs_left, seg_floor, segment,
                   current_merged_segment, last_processed_segment, finalized_segments,
                   wsTry, wsLog, speaker_identifier, chunker_live, malformed,
                   closeCause>>
    /\ UNCHANGED histVars

\* except WebSocketDisconnect: the pending turn is pushed, a failure is logged
FlushSend ==
    /\ pc = "flush_send"
    /\ LET turn == last_processed_segment[1] IN
        /\ wsTry' = Append(wsTry, turn)
        /\ \E delivered \in {d \in BOOLEAN : ~d => faults < MaxFaults} :
            /\ wsLog' = IF delivered THEN Append(wsLog, turn) ELSE wsLog
            /\ faults' = IF delivered THEN faults ELSE faults + 1
    /\ pc' = "remaining"
    /\ UNCHANGED <<meeting_audio_time, chunkerVars, mergeVars, dbTry, dbLog,
                   speaker_identifier, chunker_live, malformed, closeCause>>
    /\ UNCHANGED histVars

\* except WebSocketDisconnect with last_processed_segment None
FlushNothing ==
    /\ pc = "flush"
    /\ last_processed_segment = None
    /\ pc' = "remaining"
    /\ UNCHANGED <<meeting_audio_time, chunkerVars, mergeVars, emitVars, lifeVars>>
    /\ UNCHANGED histVars

\* SpeakerIdentifier.audio_buffer: set empty by __init__, no method appends to it
audio_buffer == <<>>

\* except WebSocketDisconnect, after the flush: the recognizer's own
\* audio_buffer is processed if buffer_length > 0, which it never is; the
\* chunker's buffer is not looked at
RemainingAudio ==
    /\ pc = "remaining"
    /\ speaker_identifier = "ready" => Len(audio_buffer) = 0
    /\ pc' = "finally"
    /\ UNCHANGED <<meeting_audio_time, chunkerVars, mergeVars, emitVars, lifeVars>>
    /\ UNCHANGED histVars

\* except Exception: websocket.close(code=1011)
Fatal ==
    /\ pc = "fatal"
    /\ pc' = "finally"
    /\ UNCHANGED <<meeting_audio_time, chunkerVars, mergeVars, emitVars, lifeVars>>
    /\ UNCHANGED histVars

ReleaseRecognizer_Skipped(si) == si

\* finally, if speaker_identifier: its audio_buffer is set to an empty array
\* and its models are deleted
ReleaseRecognizer(si) == IF si = "ready" THEN "cleaned" ELSE si

\* finally: chunker.cleanup(), the recognizer's buffer and models are released
Finally ==
    /\ pc = "finally"
    /\ chunker_live' = FALSE
    /\ speaker_identifier' = ReleaseRecognizer(speaker_identifier)
    /\ pc' = "closed"
    /\ UNCHANGED <<meeting_audio_time, chunkerVars, mergeVars, emitVars, malformed,
                   faults, closeCause>>
    /\ UNCHANGED histVars

Next ==
    \/ Accept
    \/ ReceivePacket
    \/ ReceiveMalformed
    \/ ReceiveDisconnect
    \/ ReceiveError
    \/ ChunkerStep
    \/ ChunkerDone
    \/ Recognize
    \/ MergeStep
    \/ MergeDone
    \/ Persist
    \/ SendOk
    \/ SendRaises
    \/ Advance
    \/ FlushPersist
    \/ FlushSend
    \/ FlushNothing
    \/ RemainingAudio
    \/ Fatal
    \/ Finally

Spec == Init /\ [][Next]_vars

\* ------------------------------------------- the chunker on its own
\* AudioChunker.get_queued_chunk_count for a chunker constructed with
\* sample_rate and a chunk_duration of half_seconds / 2 seconds: the guard
\* tests the product, the divisor is the product truncated by int()
get_queued_chunk_count(buf, sample_rate, half_seconds) ==
    IF sample_rate * half_seconds = 0 THEN [raised |-> FALSE, value |-> 0]
    ELSE LET chunk_size == (sample_rate * half_seconds) \div 2 IN
         IF chunk_size = 0 THEN [raised |-> TRUE, value |-> 0]
         ELSE [raised |-> FALSE, value |-> Len(buf) \div chunk_size]

\* constructor arguments of AudioChunker: a sample rate and a chunk duration
\* in half seconds; the handler's chunker has [ChunkSize, 2]
ChunkerConfigs == {[sample_rate |-> sr, half_seconds |-> hs] :
                      sr \in 0..ChunkSize, hs \in 0..2}
\* the consumer of process_audio_stream finishes its loop body for the window
\* it was given and resumes the generator
Consume ==
    /\ pc = "recognize"
    /\ pc' = "chunk"
    /\ UNCHANGED <<meeting_audio_time, chunkerVars, mergeVars, emitVars, lifeVars>>
    /\ UNCHANGED histVars

Abandon_Discard ==
    /\ pc = "recognize"
    /\ pc' = "receive"
    /\ buffer' = <<>>
    /\ UNCHANGED <<meeting_audio_time, chunk_start_time, chunk_end_time, fed, consumed,
                   windowLog, mergeVars, emitVars, lifeVars>>
    /\ UNCHANGED histVars

\* the consumer's loop body raises: the generator is abandoned where it
\* stands and the consumer comes back with the next packet
Abandon ==
    /\ pc = "recognize"
    /\ pc' = "receive"
    /\ UNCHANGED <<meeting_audio_time, chunkerVars, mergeVars, emitVars, lifeVars>>
    /\ UNCHANGED histVars

ChunkerNext ==
    \/ ReceivePacket
    \/ ChunkerStep
    \/ ChunkerDone
    \/ Consume
    \/ Abandon

\* AudioChunker fed packet after packet by a consumer that may do anything
\* with the windows it is given
ChunkerSpec == ChunkerInit /\ [][ChunkerNext]_vars

\* ------------------------------------------- two connections side by side
\* FallbackSpeakerIdentifier cycles through Speaker_1 .. Speaker_3
FallbackSpeakers == 3

\* everything the single-connection view is made of
soloVars == <<pc, meeting_audio_time, chunkerVars, mergeVars, emitVars, lifeVars,
              auth, recogLog, fedLog, consumedLog, tracing>>

NewChunker_Shared(s) == 1

\* chunker = AudioChunker(): every call of the handler constructs an instance of
\* its own (named here after the connection), whose buffer is an instance
\* attribute set by __init__
NewChunker(s) == s

NewRecognizer_Shared(s) == 1

\* speaker_identifier = create_speaker_identifier(): the factory constructs a
\* new instance at every call
NewRecognizer(s) == s

\* samples the two connections have been sent so far
PairFed == Len(sessions[1].fedLog) + Len(sessions[2].fedLog)

\* the handler of connection s starts: its chunker and recognizer are created
\* (the recognizer here is the FallbackSpeakerIdentifier, the variant that keeps
\* state between calls: speaker_counter), its locals are initialised
PairConnect(s) ==
    /\ sessions[s].pc = "connecting"
    /\ LET c == NewChunker(s)
           r == NewRecognizer(s)
       IN  /\ heap' = [heap EXCEPT !.chunkers[c] = <<>>, !.recognizers[r] = 1]
           /\ sessions' = [sessions EXCEPT ![s].pc = "receive",
                                           ![s].chunker = c,
                                           ![s].recognizer = r]
    /\ UNCHANGED soloVars

\* connection s receives a well-formed packet: its generator appends it to the
\* buffer of its chunker
PairFeed(s) ==
    /\ sessions[s].pc = "receive"
    /\ \E audio_chunk \in Packets :
        /\ PairFed + Len(audio_chunk) <= MaxSamples
        /\ heap' = [heap EXCEPT !.chunkers[sessions[s].chunker] =
                                    AppendPacket(@, audio_chunk)]
        /\ sessions' = [sessions EXCEPT ![s].pc = "chunk",
                                        ![s].fedLog = @ \o audio_chunk]
    /\ UNCHANGED soloVars

\* the segments FallbackSpeakerIdentifier.process_audio_chunk returns, here
\* none or one that spans the window, labelled by the instance's counter
FallbackSegments(n, speaker_counter, start, end) ==
    IF n = 0 THEN <<>>
    ELSE <<[speaker |-> speaker_counter, start_time |-> start, end_time |-> end,
            text |-> <<"hi">>]>>

\* one window of connection s up to the push of the turn it finalized: the
\* window leaves the buffer of the connection's chunker; a voiced one goes to
\* the connection's recognizer and the segment returned is merged into the
\* pending turn of this handler
PairWindow(s) ==
    /\ sessions[s].pc = "chunk"
    /\ HasFullWindow(heap.chunkers[sessions[s].chunker])
    /\ LET me == sessions[s]
           current_chunk == TakeWindow(heap.chunkers[me.chunker])
           rest == TrimBuffer(heap.chunkers[me.chunker])
           silent == is_silence(current_chunk)
       IN
        IF silent
        THEN /\ heap' = [heap EXCEPT !.chunkers[me.chunker] = rest]
             /\ sessions' = [sessions EXCEPT ![s].pc = AfterWindow(silent),
                                             ![s].winLog = Append(@, current_chunk)]
        ELSE \E n \in 0..1 :
            LET counter == heap.recognizers[me.recognizer]
                segs == FallbackSegments(n, counter, me.meeting_audio_time,
                            me.meeting_audio_time + Len(current_chunk))
                cur == WindowAccumulator(me.last_processed_segment)
                finalizes == /\ segs # <<>>
                             /\ cur # None
                             /\ ~MergeTest(cur[1], segs[1])
                pending == IF segs = <<>> THEN cur
                           ELSE IF cur = None THEN Some(SeedTurn(segs[1]))
                           ELSE IF MergeTest(cur[1], segs[1])
                                THEN Some(MergeInto(cur[1], segs[1]))
                           ELSE Some(SeedTurn(segs[1]))
            IN  /\ heap' = [heap EXCEPT
                               !.chunkers[me.chunker] = rest,
                               !.recognizers[me.recognizer] =
                                   IF n = 0 THEN counter
                                   ELSE (counter % FallbackSpeakers) + 1]
                /\ sessions' = [sessions EXCEPT
                       ![s].pc = "advance",
                       ![s].winLog = Append(@, current_chunk),
                       ![s].retLog = Append(@, n),
                       ![s].last_processed_segment = pending,
                       ![s].out = IF finalizes THEN Append(@, cur[1]) ELSE @]
    /\ UNCHANGED soloVars

\* meeting_audio_time += (chunk_end_time - chunk_start_time) of connection s
PairAdvance(s) ==
    /\ sessions[s].pc = "advance"
    /\ sessions' = [sessions EXCEPT ![s].pc = "chunk",
                                    ![s].meeting_audio_time = @ + ChunkSize]
    /\ UNCHANGED <<heap, soloVars>>

\* the generator of connection s is exhausted
PairDone(s) ==
    /\ sessions[s].pc = "chunk"
    /\ ~HasFullWindow(heap.chunkers[sessions[s].chunker])
    /\ sessions' = [sessions EXCEPT ![s].pc = "receive"]
    /\ UNCHANGED <<heap, soloVars>>

PairNext ==
    \E s \in Sessions :
        \/ PairConnect(s)
        \/ PairFeed(s)
        \/ PairWindow(s)
        \/ PairAdvance(s)
        \/ PairDone(s)

\* two connections open at once, their handlers interleaved at every step
PairSpec == Init /\ [][PairNext]_vars

\* ------------------------------------------------------- type invariant
TypeOK ==
    /\ pc \in {"connecting", "receive", "chunk", "recognize", "merge", "persist",
               "send", "advance", "flush", "flush_send", "remaining", "fatal", "finally",
               "closed"}
    /\ auth \in {None} \cup {Some(a) : a \in AuthData}
    /\ Len(recogLog) <= Len(windowLog)
    /\ Len(buffer) <= MaxSamples
    /\ Len(last_processed_segment) <= 1
    /\ Len(current_merged_segment) <= 1

\* ===================================================================
\* Properties
\* ===================================================================
\* duration of one full window (the D of the properties)
WindowTicks == ChunkSize

RECURSIVE IsSubSeq(_, _)
\* s can be obtained from t by deleting elements
IsSubSeq(s, t) ==
    IF s = <<>> THEN TRUE
    ELSE IF t = <<>> THEN FALSE
    ELSE IF Head(s) = Head(t) THEN IsSubSeq(Tail(s), Tail(t))
    ELSE IsSubSeq(s, Tail(t))

Rows(log) == [i \in DOMAIN log |-> Row(log[i])]

Turn(sp, st, en, tx) == [speaker |-> sp, start_time |-> st, end_time |-> en, text |-> tx]

\* a step of the merge loop that handled one segment
MergeStepTaken == pc = "merge" /\ segs_left' = segs_left - 1

\* C1: buffer conservation: at every point the samples consumed into windows
\* (voiced and silent) plus the samples still buffered are the samples appended
C1_BufferConservation == consumed + Len(buffer) = fed

C1_Witness ==
    /\ consumed >= 2 * ChunkSize
    /\ Len(buffer) > 0
    /\ \E i \in DOMAIN windowLog : windowLog[i]
    /\ \E i \in DOMAIN windowLog : ~windowLog[i]

\* C2: window timing: while every consumed window is voiced, the n-th window is
\* yielded with (start_time, end_time) = ((n-1)D, nD), however the samples
\* were split into packets
C2_WindowTiming ==
    (/\ pc = "recognize"
     /\ fed % ChunkSize = 0
     /\ \A i \in DOMAIN windowLog : ~windowLog[i])
        => /\ chunk_start_time = (Len(windowLog) - 1) * WindowTicks
           /\ chunk_end_time = Len(windowLog) * WindowTicks

\* C3: silence timestamp continuity: of three full windows fed, the second
\* silent, the third is yielded with start_time 2D
C3_SilenceContinuity ==
    (pc = "recognize" /\ fed = 3 * ChunkSize /\ windowLog = <<FALSE, TRUE, FALSE>>)
        => chunk_start_time = 2 * WindowTicks

\* C4: merge rule: a segment of the pending turn's speaker that starts at most
\* the tolerance after the pending turn's end (a gap equal to the tolerance
\* included) is merged: text joined by a space, end_time moved, speaker and
\* start_time kept, nothing finalized
C4_MergeRule ==
    [][(/\ MergeStepTaken
        /\ current_merged_segment # None
        /\ segment'[1].speaker = current_merged_segment[1].speaker
        /\ segment'[1].start_time - current_merged_segment[1].end_time <= time_tolerance)
       => /\ current_merged_segment' = Some(
                Turn(current_merged_segment[1].speaker,
                     current_merged_segment[1].start_time,
                     segment'[1].end_time,
                     current_merged_segment[1].text \o <<" ">> \o segment'[1].text))
          /\ finalized_segments' = finalized_segments
          /\ finalLog' = finalLog]_vars

\* a merge across a gap equal to the tolerance has happened: the pending turn
\* A [1,2] of the first window and the segment A [2 + tolerance, 4]
C4_Witness ==
    /\ pc = "receive"
    /\ segment = Some(Turn("A", 2 + time_tolerance, 4, <<"hi">>))
    /\ last_processed_segment = Some(Turn("A", 1, 4, <<"hi", " ", "hi">>))
    /\ finalLog = <<>>

\* the example of C4 in sample periods: A [0,1], A [1,2], B [2,3] give two turns
C4_Example ==
    /\ pc = "closed"
    /\ wsLog = << Turn("A", 0, 2, <<"hi", " ", "hi">>), Turn("B", 2, 3, <<"hi">>) >>
    /\ finalLog = wsLog

\* C5: no-merge rule: a segment of another speaker, or one that starts more
\* than the tolerance after the pending turn's end, finalizes the pending turn
\* unchanged and becomes the new pending turn
C5_NoMergeRule ==
    [][(/\ MergeStepTaken
        /\ current_merged_segment # None
        /\ \/ segment'[1].speaker # current_merged_segment[1].speaker
           \/ segment'[1].start_time - current_merged_segment[1].end_time > time_tolerance)
       => /\ finalized_segments' = Append(finalized_segments, current_merged_segment[1])
          /\ finalLog' = Append(finalLog, current_merged_segment[1])
          /\ current_merged_segment' = segment']_vars

\* the example of C5 in sample periods: A [0,1], A [3,4], B [4,5] give three turns
C5_Witness ==
    /\ pc = "closed"
    /\ wsLog = << Turn("A", 0, 1, <<"hi">>), Turn("A", 2 + time_tolerance, 4, <<"hi">>),
                  Turn("B", 4, 5, <<"hi">>) >>
    /\ finalLog = wsLog

\* C6: the pending turn persists across windows: each window's merge loop
\* starts from the pending turn the previous window left, a window without
\* segments leaves the pending turn as it was, and nothing but the end of a
\* window's merge loop changes it
C6_PendingPersists ==
    [][/\ pc = "recognize" => current_merged_segment' = last_processed_segment
       /\ (pc = "merge" /\ pc' # "merge" /\ segment = None)
              => last_processed_segment' = last_processed_segment
       /\ (pc = "merge" /\ pc' # "merge")
              => last_processed_segment' = current_merged_segment
       /\ ~(pc = "merge" /\ pc' # "merge")
              => last_processed_segment' = last_processed_segment]_vars

\* a pending turn that accumulated segments of two windows
C6_Witness ==
    /\ pc = "receive"
    /\ last_processed_segment # None
    /\ last_processed_segment[1].start_time < WindowTicks
    /\ last_processed_segment[1].end_time > WindowTicks
    /\ finalLog = <<>>

\* a window without segments after a window with some, the pending turn kept
C6_EmptyWindow ==
    /\ pc = "advance"
    /\ segment = None
    /\ last_processed_segment # None
    /\ Len(windowLog) >= 2

\* C7: emission order: the turns reach the client and the database in the
\* order in which they were finalized, the flushed turn last
C7_EmissionOrder ==
    /\ IsSubSeq(wsLog, finalLog)
    /\ IsSubSeq(dbLog, Rows(finalLog))
    /\ IsSubSeq(wsTry, finalLog)
    /\ IsSubSeq(dbTry, finalLog)

C7_Witness ==
    /\ pc = "closed"
    /\ Len(wsLog) = 3
    /\ Len(dbLog) = 3
    /\ wsLog[1] # wsLog[2]
    /\ wsLog[2] # wsLog[3]

\* C8: monotonic consolidation: of two emitted turns the later one starts no
\* earlier than the earlier one ends
C8_Monotonic ==
    \A i, j \in DOMAIN wsLog : i < j => wsLog[j].start_time >= wsLog[i].end_time

\* C9: a pending turn is not lost on a disconnect: before the resources are
\* released its database write and its client push have been attempted (and
\* have succeeded unless the database or the connection failed)
C9_LastTurnFlushed ==
    /\ (closeCause = "disconnect" /\ pc \in {"finally", "closed"}
            /\ last_processed_segment # None)
        => /\ dbTry # <<>> /\ Last(dbTry) = last_processed_segment[1]
           /\ wsTry # <<>> /\ Last(wsTry) = last_processed_segment[1]
           /\ Last(finalLog) = last_processed_segment[1]
           /\ faults = 0 =>
                /\ dbLog # <<>> /\ Last(dbLog) = Row(last_processed_segment[1])
                /\ wsLog # <<>> /\ Last(wsLog) = last_processed_segment[1]
    /\ (~chunker_live \/ speaker_identifier = "cleaned") => pc = "closed"

C9_Witness ==
    /\ pc = "closed"
    /\ closeCause = "disconnect"
    /\ last_processed_segment # None
    /\ Len(finalLog) >= 2
    /\ Last(wsLog) = last_processed_segment[1]

\* C10: every way out of the receive loop flushes the pending turn (database
\* write and client push attempted) before the session is closed
C10_DrainOnEveryExit ==
    (pc = "closed" /\ last_processed_segment # None)
        => /\ dbTry # <<>> /\ Last(dbTry) = last_processed_segment[1]
           /\ wsTry # <<>> /\ Last(wsTry) = last_processed_segment[1]

\* C11: on close a partial window left in the chunker buffer is forced out and
\* processed: after a disconnect no fed sample is left unconsumed
C11_PartialWindowDrained ==
    (pc = "closed" /\ closeCause = "disconnect") => consumed = fed

\* C12: a raise of the recognizer is contained: the window counts as having no
\* segments (pending turn unchanged, nothing finalized or emitted, session still
\* open and streaming), and every voiced window, whatever happened before it,
\* is handed to the recognizer
C12_RecognizerFailureContained ==
    [][/\ (pc = "recognize" /\ raised')
            => /\ pc' = "merge"
               /\ current_merged_segment' = last_processed_segment
               /\ UNCHANGED <<last_processed_segment, finalLog, emitVars, closeCause>>
       /\ (pc = "merge" /\ raised)
            => /\ pc' = "advance"
               /\ UNCHANGED <<last_processed_segment, finalLog, emitVars, closeCause,
                              recogLog, buffer>>
       /\ pc = "advance" => pc' = "chunk"
       /\ (Len(windowLog') > Len(windowLog) /\ ~Last(windowLog'))
            => pc' = "recognize"
       /\ pc = "recognize"
            => /\ Len(recogLog') = Len(recogLog) + 1
               /\ Last(recogLog').window = Len(windowLog)
      ]_vars

C12_Witness ==
    /\ pc = "receive"
    /\ Len(recogLog) = 3
    /\ ~recogLog[1].raised /\ recogLog[2].raised /\ ~recogLog[3].raised
    /\ Len(recogLog[1].segs) = 1 /\ Len(recogLog[3].segs) = 1
    /\ wsLog = recogLog[1].segs
    /\ last_processed_segment = Some(recogLog[3].segs[1])

\* C13: a failed database write is contained: the turn whose write was
\* attempted (committed or not) is the next one pushed, and after a push that
\* returned the loop goes on with the remaining finalized turns of the window
C13_PersistFailureContained ==
    [][/\ pc = "persist"
            => /\ pc' = "send"
               /\ dbTry' = Append(dbTry, Head(finalized_segments))
               /\ UNCHANGED <<finalized_segments, closeCause, last_processed_segment>>
       /\ pc = "send" => wsTry' = Append(wsTry, Last(dbTry))
       /\ (pc = "send" /\ wsLog' # wsLog)
            => /\ wsLog' = Append(wsLog, Last(dbTry))
               /\ finalized_segments' = Tail(finalized_segments)
               /\ pc' = IF finalized_segments' = <<>> THEN "advance" ELSE "persist"
               /\ closeCause' = "open"
      ]_vars

C13_Witness ==
    /\ pc = "advance"
    /\ Len(recogLog) = 2
    /\ Len(dbTry) = 2
    /\ Row(dbTry[1]) # Row(dbTry[2])
    /\ dbLog = <<Row(dbTry[2])>>
    /\ wsLog = dbTry

\* C14: a packet whose length is not a multiple of the sample width is
\* dropped: chunker buffer, pending turn, session clock and everything sent to
\* the client are unchanged and the handler is back at receive, still open
C14_MalformedDropped ==
    [][(~malformed /\ malformed')
            => /\ pc = "receive" /\ pc' = "receive"
               /\ UNCHANGED <<buffer, fed, consumed, windowLog, recogLog,
                              last_processed_segment, meeting_audio_time,
                              finalLog, emitVars, closeCause, speaker_identifier>>
      ]_vars

C14_Witness ==
    /\ pc = "receive"
    /\ malformed
    /\ Len(buffer) > 0
    /\ last_processed_segment # None
    /\ wsLog # <<>>

\* C15: the flush leaves no pending turn behind: once the disconnect handler
\* has flushed, the pending turn is null
C15_FlushClearsPending ==
    (closeCause = "disconnect" /\ pc \in {"remaining", "finally", "closed"})
        => last_processed_segment = None

\* the scenarios of C16 and C17 are fault-free runs in which the first k
\* windows of the stream were all voiced and the recognizer returned exactly
\* one segment for each of them
OneSegmentPerWindow(k) ==
    /\ faults = 0
    /\ Len(recogLog) = k
    /\ \A i \in 1..k : recogLog[i].window = i /\ Len(recogLog[i].segs) = 1

FirstSegments == [i \in DOMAIN recogLog |-> recogLog[i].segs[1]]

RECURSIVE Joined(_)
\* the text of k segments saying "hi" merged into one turn
Joined(k) == IF k = 1 THEN <<"hi">> ELSE Joined(k - 1) \o <<" ", "hi">>

\* the handler is between windows: merge and emission of the last one are done
BetweenWindows == closeCause = "open" /\ pc \in {"advance", "chunk", "receive"}

FlushedAndClosed == closeCause = "disconnect" /\ pc = "closed"

\* C16: k <= 3 consecutive voiced windows, each recognized as one segment of
\* the same speaker covering the whole window: nothing is emitted while
\* streaming, the pending turn spans all k windows, and the final flush emits
\* exactly that one turn
C16_CrossWindowMerge ==
    \A k \in 1..3 :
        (/\ OneSegmentPerWindow(k)
         /\ \A i \in 1..k : recogLog[i].segs[1] =
                Turn("A", (i - 1) * WindowTicks, i * WindowTicks, <<"hi">>))
        => /\ closeCause = "open" => finalLog = <<>> /\ dbTry = <<>> /\ wsTry = <<>>
           /\ BetweenWindows
                => last_processed_segment =
                        Some(Turn("A", 0, k * WindowTicks, Joined(k)))
           /\ FlushedAndClosed
                => /\ wsLog = <<Turn("A", 0, k * WindowTicks, Joined(k))>>
                   /\ dbLog = <<Row(wsLog[1])>>
                   /\ finalLog = wsLog /\ wsTry = wsLog /\ dbTry = wsLog

C16_Witness ==
    /\ FlushedAndClosed
    /\ OneSegmentPerWindow(3)
    /\ wsLog = <<Turn("A", 0, 3 * WindowTicks, Joined(3))>>

\* C17: k <= 3 consecutive voiced windows, each recognized as one segment, the
\* speaker changing from each window to the next: every segment is a turn of
\* its own, all but the last emitted while streaming in window order, the last
\* one pending until the final flush emits it
C17_AlternatingSpeakers ==
    \A k \in 1..3 :
        (/\ OneSegmentPerWindow(k)
         /\ \A i \in 1..(k - 1) :
                recogLog[i].segs[1].speaker # recogLog[i + 1].segs[1].speaker)
        => /\ BetweenWindows
                => /\ wsLog = SubSeq(FirstSegments, 1, k - 1)
                   /\ dbLog = Rows(wsLog)
                   /\ finalLog = wsLog
                   /\ last_processed_segment = Some(FirstSegments[k])
           /\ FlushedAndClosed
                => /\ wsLog = FirstSegments
                   /\ dbLog = Rows(wsLog)
                   /\ finalLog = wsLog

C17_Witness ==
    /\ FlushedAndClosed
    /\ OneSegmentPerWindow(3)
    /\ wsLog = FirstSegments
    /\ wsLog[1].speaker = "A" /\ wsLog[2].speaker = "B" /\ wsLog[3].speaker = "A"
    /\ wsLog[2].start_time - wsLog[1].end_time <= time_tolerance

C17_Streaming ==
    /\ BetweenWindows
    /\ OneSegmentPerWindow(3)
    /\ Len(wsLog) = 2 /\ wsLog[1].speaker # wsLog[2].speaker
    /\ last_processed_segment # None
    /\ last_processed_segment[1].speaker # wsLog[2].speaker

\* C18: the chunker consumes only whole windows: each consumption takes exactly
\* ChunkSize samples off the front of a buffer that holds at least that many,
\* whether the window is then yielded or dropped as silence, and when feed
\* returns the samples short of a window are still in the buffer
C18_WholeWindowsOnly ==
    [][/\ (consumed' # consumed \/ windowLog' # windowLog)
            => /\ Len(buffer) >= ChunkSize
               /\ consumed' = consumed + ChunkSize
               /\ Len(windowLog') = Len(windowLog) + 1
               /\ buffer = SubSeq(buffer, 1, ChunkSize) \o buffer'
               /\ Last(windowLog') = is_silence(SubSeq(buffer, 1, ChunkSize))
               /\ pc' = IF Last(windowLog') THEN "chunk" ELSE "recognize"
       /\ (pc = "chunk" /\ pc' = "receive")
            => /\ Len(buffer) < ChunkSize
               /\ UNCHANGED <<buffer, consumed, windowLog>>
      ]_vars

C18_Witness ==
    /\ pc = "closed"
    /\ consumed = 2 * ChunkSize
    /\ windowLog = <<TRUE, FALSE>>
    /\ Len(buffer) = ChunkSize - 1

\* the authentication data passed every check of the handler
Authenticated ==
    /\ auth # None
    /\ auth[1].type_ok /\ auth[1].jwt_ok /\ auth[1].email /\ auth[1].user
    /\ auth[1].can_create

\* C19: audio is accepted in the streaming state only: samples reach the
\* chunker and windows reach the recognizer only after the authentication
\* message passed every check and the recognizer was created; a failed check
\* or a failed creation closes the connection with no audio processed
C19_AuthBeforeAudio ==
    /\ (fed > 0 \/ windowLog # <<>> \/ recogLog # <<>>)
        => Authenticated /\ speaker_identifier # "none"
    /\ pc \in {"receive", "chunk", "recognize", "merge", "persist", "send", "advance"}
        => Authenticated /\ speaker_identifier = "ready"
    /\ (~Authenticated /\ pc # "connecting")
        => /\ fed = 0 /\ buffer = <<>> /\ recogLog = <<>>
           /\ speaker_identifier = "none"
           /\ auth # None => closeCause = "rejected" /\ pc \in {"finally", "closed"}
    /\ closeCause = "rejected"
        => /\ fed = 0 /\ buffer = <<>> /\ recogLog = <<>>
           /\ speaker_identifier = "none"
           /\ pc \in {"finally", "closed"}

C19_Witness ==
    /\ pc = "closed"
    /\ closeCause = "rejected"
    /\ auth = Some([type_ok |-> TRUE, jwt_ok |-> TRUE, email |-> TRUE, user |-> TRUE,
                    can_create |-> FALSE])

C19_InitFailed ==
    /\ pc = "closed"
    /\ closeCause = "rejected"
    /\ Authenticated

\* C20: silent windows count toward absolute time: the absolute start time
\* handed to the recognizer for a voiced window is the duration of all the
\* windows consumed before it
C20_SilenceCountsInClock ==
    (pc = "recognize" /\ faults = 0)
        => meeting_audio_time = (Len(windowLog) - 1) * WindowTicks

\* C21: every finalized turn is emitted exactly once: when a session has been
\* closed after a disconnect, the turns whose database write was attempted and
\* the turns whose client push was attempted are exactly the finalized turns,
\* each once and in order
C21_EmittedExactlyOnce ==
    (pc = "closed" /\ closeCause = "disconnect")
        => dbTry = finalLog /\ wsTry = finalLog

RECURSIVE AllSegments(_)
\* the raw segments of the recognizer calls in log, in the order returned
AllSegments(log) ==
    IF log = <<>> THEN <<>> ELSE Head(log).segs \o AllSegments(Tail(log))

RECURSIVE Consolidate(_, _)
\* the turns the merge rule makes of the raw segments segs, added to turns
Consolidate(segs, turns) ==
    IF segs = <<>> THEN turns
    ELSE IF turns = <<>> THEN Consolidate(Tail(segs), <<Head(segs)>>)
    ELSE IF MergeTest(Last(turns), Head(segs))
         THEN Consolidate(Tail(segs),
                          [turns EXCEPT ![Len(turns)] = MergeInto(@, Head(segs))])
         ELSE Consolidate(Tail(segs), Append(turns, Head(segs)))

\* C22: between windows every raw segment returned so far belongs to exactly
\* one turn, and the turns are the emitted ones (write and push attempted)
\* followed by the single pending turn
C22_SegmentAccounting ==
    (closeCause = "open" /\ pc \in {"advance", "chunk", "receive", "recognize"})
        => /\ Consolidate(AllSegments(recogLog), <<>>) = wsTry \o last_processed_segment
           /\ dbTry = wsTry

\* C23: feed consumes one window at a time for as long as a full window is
\* buffered, and when it returns fewer than ChunkSize samples are left: every
\* window the samples fed so far complete has been consumed
C23_FeedDrainsFullWindows ==
    [][/\ (pc = "chunk" /\ Len(buffer) >= ChunkSize)
            => /\ pc' \in {"chunk", "recognize"}
               /\ consumed' = consumed + ChunkSize
               /\ Len(buffer') = Len(buffer) - ChunkSize
       /\ (pc = "chunk" /\ pc' = "receive")
            => /\ Len(buffer') < ChunkSize
               /\ Len(windowLog') = fed \div ChunkSize
               /\ consumed' = ChunkSize * (fed \div ChunkSize)
      ]_vars

C23_Witness ==
    /\ pc = "chunk"
    /\ faults = 0
    /\ Len(windowLog) = 1
    /\ Len(buffer) >= ChunkSize

C23_Drained ==
    /\ pc = "receive"
    /\ faults = 0
    /\ fed = 2 * ChunkSize + 1
    /\ Len(windowLog) = 2
    /\ Len(buffer) = 1

\* C24: a consumed window is dropped as silence exactly when every sample of
\* it is below the threshold in absolute value; a window with a sample at the
\* threshold is voiced and is yielded to the consumer
C24_SilenceClassification ==
    /\ Len(consumedLog) = Len(windowLog)
    /\ \A i \in DOMAIN consumedLog :
        windowLog[i] <=> \A j \in DOMAIN consumedLog[i] :
                            Abs(consumedLog[i][j]) < silence_threshold
    /\ pc = "recognize"
        => /\ consumedLog # <<>>
           /\ \E j \in DOMAIN Last(consumedLog) :
                Abs(Last(consumedLog)[j]) >= silence_threshold
    /\ (consumedLog # <<>> /\ Last(windowLog) /\ pc # "receive") => pc = "chunk"

C24_Witness ==
    /\ pc = "recognize"
    /\ Len(consumedLog) = 2
    /\ MaxAbs(consumedLog[1]) < silence_threshold
    /\ MaxAbs(consumedLog[2]) = silence_threshold
    /\ windowLog = <<TRUE, FALSE>>

\* C25: a silent window leaves the buffer like a voiced one and is not
\* yielded: the buffer loses its first ChunkSize samples, the recognizer is not
\* called for it, and pending turn, clock and output are unchanged by it
C25_SilentWindowDropped ==
    [][/\ (Len(windowLog') > Len(windowLog) /\ Last(windowLog'))
            => /\ buffer' = SubSeq(buffer, ChunkSize + 1, Len(buffer))
               /\ pc' = "chunk"
               /\ UNCHANGED <<recogLog, last_processed_segment, current_merged_segment,
                              meeting_audio_time, finalLog, emitVars, fed>>
       /\ \A k \in DOMAIN recogLog' : ~windowLog'[recogLog'[k].window]
      ]_vars

C25_Witness ==
    /\ pc = "closed"
    /\ windowLog = <<FALSE, TRUE, FALSE>>
    /\ Len(recogLog) = 2
    /\ recogLog[2].window = 3
    /\ buffer = <<>>
    /\ last_processed_segment # None

\* C26: the n-th window yielded is handed to the recognizer with absolute
\* start equal to the total duration of the n - 1 windows yielded before it, so
\* that the ranges handed over are contiguous and do not overlap
C26_SessionClock ==
    \A n \in DOMAIN recogLog : recogLog[n].start = (n - 1) * WindowTicks

RECURSIVE Concat(_)
\* the sequences of seqs joined in order
Concat(seqs) == IF seqs = <<>> THEN <<>> ELSE Head(seqs) \o Concat(Tail(seqs))

\* C27: the windows consumed so far, in consumption order, followed by the
\* samples still buffered are exactly the samples accepted so far in arrival
\* order: none dropped, none duplicated, none in two windows
C27_SamplesConserved ==
    /\ Concat(consumedLog) \o buffer = fedLog
    /\ Len(fedLog) = fed
    /\ Len(consumedLog) = Len(windowLog)

C27_Witness ==
    /\ pc = "receive"
    /\ Len(consumedLog) = 2
    /\ consumedLog[1] # consumedLog[2]
    /\ ~windowLog[1] /\ ~windowLog[2]
    /\ Len(buffer) = 1
    /\ fedLog = consumedLog[1] \o consumedLog[2] \o buffer

\* C28: with no pending turn, a raw segment becomes the turn being built as
\* it is (speaker, text, start_time, end_time) and finalizes nothing
C28_FirstSegment ==
    [][(MergeStepTaken /\ current_merged_segment = None)
            => /\ segment' = Some(Last(Last(recogLog').segs))
               /\ current_merged_segment' = segment'
               /\ UNCHANGED <<finalized_segments, finalLog, emitVars>>
      ]_vars

C28_Witness ==
    /\ pc = "receive"
    /\ Len(AllSegments(recogLog)) = 1
    /\ AllSegments(recogLog)[1].text = <<"hi">>
    /\ last_processed_segment = Some(AllSegments(recogLog)[1])
    /\ finalLog = <<>>

\* C29: a segment with empty text of the pending turn's speaker, within the
\* tolerance, is merged: the end_time becomes the segment's, the text gets the
\* separating space, nothing is finalized
C29_EmptyTextMerged ==
    [][(/\ MergeStepTaken
        /\ current_merged_segment # None
        /\ segment'[1].text = <<>>
        /\ segment'[1].speaker = current_merged_segment[1].speaker
        /\ segment'[1].start_time - current_merged_segment[1].end_time
                <= time_tolerance)
            => /\ current_merged_segment' =
                    Some(Turn(current_merged_segment[1].speaker,
                              current_merged_segment[1].start_time,
                              segment'[1].end_time,
                              current_merged_segment[1].text \o <<" ">>))
               /\ UNCHANGED <<finalized_segments, finalLog, emitVars>>
      ]_vars

C29_Witness ==
    /\ pc = "receive"
    /\ segment # None /\ segment[1].text = <<>>
    /\ last_processed_segment # None
    /\ last_processed_segment[1].text = <<"hi", " ">>
    /\ last_processed_segment[1].end_time = segment[1].end_time
    /\ last_processed_segment[1].start_time < segment[1].start_time
    /\ finalLog = <<>>

\* C30: for every turn the database write is attempted before its push, and
\* the push of a turn before the write of the next: the pushes attempted are a
\* prefix of the writes attempted, shorter by one exactly between the write and
\* the push of a turn
C30_PersistBeforePush ==
    /\ Len(wsTry) <= Len(dbTry)
    /\ Len(dbTry) <= Len(wsTry) + 1
    /\ wsTry = SubSeq(dbTry, 1, Len(wsTry))
    /\ Len(dbTry) = Len(wsTry) + 1 <=> pc \in {"send", "flush_send"}

C30_Witness ==
    /\ pc = "flush_send"
    /\ Len(dbTry) = 3
    /\ Len(wsTry) = 2
    /\ Len(recogLog) = 2

\* C31: processing within a session is strictly sequential: when a window is
\* handed over for recognition, every earlier window's handling is complete:
\* each turn finalized so far has had its database write and its push
\* attempted, and the clock has been advanced once for every earlier yielded
\* window
C31_StrictlySequential ==
    pc = "recognize"
        => /\ finalized_segments = <<>>
           /\ dbTry = finalLog
           /\ wsTry = finalLog
           /\ meeting_audio_time = Len(recogLog) * WindowTicks

RECURSIVE SoloSegments(_, _, _, _)
\* the segments a connection run alone gets for the windows wins of its own
\* input, the recognizer returning rets[i] segments for the i-th voiced one
SoloSegments(wins, rets, speaker_counter, clock) ==
    IF wins = <<>> THEN <<>>
    ELSE IF is_silence(Head(wins))
         THEN SoloSegments(Tail(wins), rets, speaker_counter, clock)
    ELSE IF rets = <<>> THEN <<>>
    ELSE IF Head(rets) = 0
         THEN SoloSegments(Tail(wins), Tail(rets), speaker_counter, clock + ChunkSize)
    ELSE <<Turn(speaker_counter, clock, clock + ChunkSize, <<"hi">>)>>
            \o SoloSegments(Tail(wins), Tail(rets),
                            (speaker_counter % FallbackSpeakers) + 1, clock + ChunkSize)

\* C32: session isolation: two open connections have different chunker and
\* recognizer instances, and whatever the interleaving each one's windows are
\* the blocks of its own samples, its clock counts its own voiced windows, and
\* its turns (pushed, then pending) are those of its own segments labelled as
\* by a recognizer nobody else used
C32_SessionIsolation ==
    /\ \A s, t \in Sessions :
        (s # t /\ sessions[s].pc # "connecting" /\ sessions[t].pc # "connecting")
            => /\ sessions[s].chunker # sessions[t].chunker
               /\ sessions[s].recognizer # sessions[t].recognizer
    /\ \A s \in Sessions :
        LET me == sessions[s] IN
        me.pc # "connecting"
            => /\ Concat(me.winLog) \o heap.chunkers[me.chunker] = me.fedLog
               /\ me.meeting_audio_time =
                    ChunkSize * (Len(me.retLog) - IF me.pc = "advance" THEN 1 ELSE 0)
               /\ me.out \o me.last_processed_segment =
                    Consolidate(SoloSegments(me.winLog, me.retLog, 1, 0), <<>>)

C32_Witness ==
    /\ sessions[1].pc = "receive" /\ sessions[2].pc = "receive"
    /\ Len(sessions[1].out) = 1
    /\ sessions[1].last_processed_segment # None
    /\ sessions[1].last_processed_segment[1].speaker = 2
    /\ sessions[2].last_processed_segment # None
    /\ sessions[2].last_processed_segment[1].speaker = 1
    /\ sessions[2].last_processed_segment[1].start_time = 0

C33_WholeSampleWindows ==
    /\ \A cfg \in ChunkerConfigs :
        LET windowSamples == (cfg.sample_rate * cfg.half_seconds) \div 2
            q == get_queued_chunk_count(buffer, cfg.sample_rate, cfg.half_seconds)
        IN  (cfg.sample_rate * cfg.half_seconds = 0 \/ windowSamples > 0)
            => /\ ~q.raised
               /\ windowSamples = 0 => q.value = 0
               /\ windowSamples > 0
                    => /\ q.value * windowSamples <= Len(buffer)
                       /\ Len(buffer) < (q.value + 1) * windowSamples
    /\ (pc = "receive" /\ Len(windowLog) = fed \div ChunkSize)
        => get_queued_chunk_count(buffer, ChunkSize, 2).value = 0

\* the recognizer's audio_buffer: what __init__ left in it, or the empty array
\* the finally block assigns
RecognizerBuffer == IF speaker_identifier = "cleaned" THEN <<>> ELSE audio_buffer

\* C34: whenever the handler has returned from a session whose recognizer was
\* created, the finally block has released the recognizer and its audio
\* buffer is empty, whichever way the session ended
C34_RecognizerBufferCleared ==
    (pc = "closed" /\ Authenticated /\ closeCause # "rejected")
        => /\ speaker_identifier = "cleaned"
           /\ RecognizerBuffer = <<>>
           /\ closeCause \in {"disconnect", "error"}

C34_Witness ==
    /\ pc = "closed"
    /\ closeCause = "error"
    /\ speaker_identifier = "cleaned"
    /\ recogLog # <<>>
    /\ Len(buffer) > 0

C34_AfterDisconnect ==
    /\ pc = "closed"
    /\ closeCause = "disconnect"
    /\ speaker_identifier = "cleaned"
    /\ wsLog # <<>>

\* no two neighbours of the sequence of turns log could have been merged
NeverMergeable(log) ==
    \A i \in 1..(Len(log) - 1) :
        \/ log[i + 1].speaker # log[i].speaker
        \/ log[i + 1].start_time - log[i].end_time > time_tolerance

\* C35: maximal merging: of two turns emitted one after the other (finalized,
\* written, pushed) either the speakers differ or the later one starts more
\* than the tolerance after the end of the earlier one
C35_MaximalMerging ==
    /\ NeverMergeable(finalLog)
    /\ NeverMergeable(dbTry)
    /\ NeverMergeable(wsTry)

\* C36: a window for which the recognizer returns no segments changes neither
\* the pending turn nor the output: its recognition, the end of its (empty)
\* merge loop and its clock step leave pending turn, finalized turns, writes
\* and pushes as they were, nothing is emitted for it, and the clock advances
\* by the window's duration
C36_EmptyWindowNoEffect ==
    [][(/\ pc \in {"recognize", "merge", "advance"}
        /\ recogLog' # <<>>
        /\ Last(recogLog').segs = <<>>)
            => /\ UNCHANGED <<last_processed_segment, finalLog, emitVars>>
               /\ finalized_segments' = <<>>
               /\ pc = "merge" => pc' = "advance"
               /\ pc = "advance"
                    => meeting_audio_time' = meeting_audio_time + WindowTicks
               /\ pc # "advance" => UNCHANGED meeting_audio_time
      ]_vars

C36_Witness ==
    /\ pc = "receive"
    /\ Len(recogLog) = 2
    /\ recogLog[1].segs # <<>>
    /\ recogLog[2].segs = <<>> /\ ~recogLog[2].raised
    /\ last_processed_segment = Some(recogLog[1].segs[1])
    /\ meeting_audio_time = 2 * WindowTicks
    /\ wsTry = <<>> /\ dbTry = <<>>

\* C37: the clock advances by the window's duration for every window
\* yielded, also when the recognizer, the database write or the push fails
\* while the window is handled: between windows the clock is the total
\* duration of the windows the recognizer was called for, and no two calls of
\* the recognizer get the same absolute start time
C37_ClockAdvancesDespiteFailures ==
    /\ pc \in {"receive", "chunk", "recognize", "flush", "fatal", "closed"}
        => meeting_audio_time = WindowTicks * Len(recogLog)
    /\ \A i, j \in DOMAIN recogLog : i # j => recogLog[i].start # recogLog[j].start

\* a session in which the recognizer raised for a window, and the clock
\* counted the window
C37_RecognizerFailureCounted ==
    /\ pc = "receive"
    /\ Len(recogLog) = 2
    /\ recogLog[1].raised
    /\ recogLog[2].start = WindowTicks
    /\ meeting_audio_time = 2 * WindowTicks

\* a session in which the database write of a turn failed, and the clock
\* counted the window
C37_WriteFailureCounted ==
    /\ pc = "receive"
    /\ Len(recogLog) = 2
    /\ Len(dbTry) = 1 /\ dbLog = <<>>
    /\ wsLog = dbTry
    /\ meeting_audio_time = 2 * WindowTicks

\* the i-th block of ChunkSize samples of the sequence samples
Block(samples, i) == SubSeq(samples, (i - 1) * ChunkSize + 1, i * ChunkSize)

\* C38: when the handling of a yielded window raises, the samples buffered
\* behind it stay in the chunker's buffer, and when a later feed returns every
\* full window of the samples accepted so far has been consumed, in arrival
\* order, the windows left behind by the failure included
C38_BufferedWindowsSurvive ==
    [][/\ (pc = "recognize" /\ pc' = "receive")
            => UNCHANGED <<buffer, fedLog, consumedLog, fed, consumed>>
       /\ (pc = "receive" /\ pc' = "chunk")
            => \E audio_chunk \in Packets : buffer' = buffer \o audio_chunk
       /\ (pc = "chunk" /\ pc' = "receive")
            => /\ Len(buffer') < ChunkSize
               /\ Len(consumedLog') = Len(fedLog') \div ChunkSize
               /\ \A i \in DOMAIN consumedLog' : consumedLog'[i] = Block(fedLog', i)
      ]_vars

C38_Witness ==
    /\ pc = "receive"
    /\ Len(consumedLog) = 1
    /\ Len(buffer) >= ChunkSize
    /\ ~is_silence(Block(buffer, 1))
    /\ Block(buffer, 1) # consumedLog[1]

\* raw segments with start_time <= end_time, delivered in time order
InTimeOrder(segs) ==
    /\ \A i \in DOMAIN segs : segs[i].start_time <= segs[i].end_time
    /\ \A i \in 1..(Len(segs) - 1) : segs[i].end_time <= segs[i + 1].start_time

RECURSIVE JoinTexts(_, _, _)
\* the texts of segs[i..j] joined in order by single spaces
JoinTexts(segs, i, j) ==
    IF i = j THEN segs[i].text
    ELSE JoinTexts(segs, i, j - 1) \o <<" ">> \o segs[j].text

\* turn is made of a run segs[i..j] of the raw segments
WellFormedTurn(turn, segs) ==
    /\ turn.start_time <= turn.end_time
    /\ \E i, j \in DOMAIN segs :
        /\ i <= j
        /\ \A k \in i..j : segs[k].speaker = turn.speaker
        /\ turn.start_time = segs[i].start_time
        /\ turn.end_time = segs[j].end_time
        /\ turn.text = JoinTexts(segs, i, j)

\* C39: when the raw segments returned so far have start_time <= end_time and
\* came in time order, every turn finalized, written or pushed and the pending
\* turn starts where its first segment starts, ends where its last segment
\* ends, has start_time <= end_time, and has its segments' texts joined in
\* order by single spaces
C39_TurnWellFormed ==
    LET segs == AllSegments(recogLog) IN
    InTimeOrder(segs)
        => /\ \A k \in DOMAIN finalLog : WellFormedTurn(finalLog[k], segs)
           /\ \A k \in DOMAIN dbTry : WellFormedTurn(dbTry[k], segs)
           /\ \A k \in DOMAIN wsTry : WellFormedTurn(wsTry[k], segs)
           /\ last_processed_segment # None
                => WellFormedTurn(last_processed_segment[1], segs)

C39_Witness ==
    /\ pc = "closed"
    /\ Len(wsLog) = 2
    /\ Len(AllSegments(recogLog)) = 3
    /\ InTimeOrder(AllSegments(recogLog))
    /\ wsLog[1].text = <<"hi", " ", "hi">>
    /\ wsLog[1].start_time = AllSegments(recogLog)[1].start_time
    /\ wsLog[1].end_time = AllSegments(recogLog)[2].end_time
    /\ AllSegments(recogLog)[1].end_time < AllSegments(recogLog)[2].start_time
    /\ Len(recogLog) = 2 /\ Len(recogLog[1].segs) = 1

====
